---------------------------- MODULE Spec2Model ----------------------------
(***************************************************************************)
(* Model of the hiffy task (src/task/hiffy/src/main.rs): the device-side   *)
(* loop that sleeps, polls HIFFY_KICK, runs one HIF invocation per kick    *)
(* and publishes its outcome, together with the debugger host that shares  *)
(* the HIFFY_* words with it.                                              *)
(*                                                                         *)
(* Every AtomicU32 is held as the 32-bit two's-complement integer with the *)
(* same bits (0xFFFF_FFFF is -1), so that wrapping fetch_add / fetch_sub   *)
(* are exact: see U32Inc, U32Dec, U32Add.                                  *)
(*                                                                         *)
(* The device is one sequential process; pc names the statement of main()  *)
(* it is about to execute.  Every access to a shared word is one step, so  *)
(* the host can act between any two of them.                               *)
(***************************************************************************)
EXTENDS Integers, Sequences, FiniteSets, TLC

\* ------------------------------------------------------------------ bounds

\* Kicks the host issues at most (the host issues finitely many).
MaxKicks == 3
\* Distinct failure descriptors the engine can return.
NFail == 2
\* The history counter of consecutive idle ticks saturates here.
IdleCap == 32
\* Distinct non-initial contents the engine can leave in a buffer.
NUsed == 1
\* sp_measure: bytes per read (READ_SIZE, 256 in the source).
ReadSize == 2
\* sp_measure: blocks of the flash image (TEST_SIZE / READ_SIZE, 256 in the
\* source).
NBlocks == 5
\* sp_measure: the largest byte value (255 in the source).
MaxByte == 1
\* sp_measure: driver calls that fail at most.
MaxFaults == 2
\* sp_measure: passes of the outer loop the task is followed through (and
\* into the opening setup of the pass after them).
MaxPasses == 2

\* ------------------------------------------------------- program constants

\* let mut sleep_ms = 250;
InitSleepMs == 250
\* core::cmp::min(sleep_ms * 10, 250)
MaxSleepMs == 250
\* sleep_ms * 10
BackoffFactor == 10
\* if sleeps == 10
BackoffTicks == 10
\* sleep_ms = 1;
KickSleepMs == 1
\* let mut stack = [None; 32]; let mut scratch = [0u8; 256]; the statics'
\* [0; 2048]: the contents a buffer starts with.
Pristine == 0
\* ringbuf!(Trace, 16, Trace::None);
RingSize == 16
\* const TRANSACTION_SIZE: u32 = 1024, which is 4 * READ_SIZE.
TransactionSize == 4 * ReadSize
\* const FLASH_START: u32 = 0x0800_0000, which is 131072 * TRANSACTION_SIZE.
FlashStart == 131072 * TransactionSize
\* const TEST_SIZE
TestSize == NBlocks * ReadSize
\* const FLASH_END: u32 = FLASH_START + TEST_SIZE;
FlashEnd == FlashStart + TestSize

VARIABLES
    pc,             \* the statement of main() the device is at
    sleep_ms,       \* local: the interval of the next sleep
    sleeps,         \* local: idle ticks since the last backoff step or kick
    kload,          \* the value HIFFY_KICK.load returned on this wake
    rv,             \* local: what execute() returned
    HIFFY_REQUESTS, \* AtomicU32
    HIFFY_ERRORS,   \* AtomicU32
    HIFFY_KICK,     \* AtomicU32
    HIFFY_READY,    \* AtomicU32
    HIFFY_FAILURE,  \* Option<Failure>
    HIFFY_RSTACK,   \* [u8; 2048]: contents of the return-stack buffer
    stack,          \* local [Option<u32>; 32]: contents of the operand stack
    scratch,        \* local [u8; 256]: contents of the scratch buffer
    hpc,            \* the host's position in its protocol
    order,          \* the order in which the protocol host reads the mailbox
    issued,         \* history: kicks the host has issued
    nSub,           \* history: HIFFY_KICK.fetch_sub calls made
    nOk,            \* history: engine calls that returned Ok
    nErr,           \* history: engine calls that returned Err
    lastFail,       \* history: the failure of the latest failing engine call
    idles,          \* history: idle ticks since the latest fetch_sub (saturating)
    mpc,            \* sp_measure: the statement of its main() the task is at
    blk,            \* sp_measure: i, the index of the block of the for loop
    data,           \* sp_measure: the read buffer
    sha,            \* sp_measure: the blocks fed to the hasher, in order
    err_cnt,        \* sp_measure: the error counter
    ringbuf,        \* sp_measure: the trace entries recorded, latest last
    drvAddr,        \* history: addr of the latest read_transaction_start Ok
    faults,         \* history: driver calls that returned Err
    readOk,         \* history: the read that filled data returned Ok
    checked,        \* history: blocks of this pass read Ok and found equal
    passes          \* history: passes completed

vars == <<pc, sleep_ms, sleeps, kload, rv, HIFFY_REQUESTS, HIFFY_ERRORS,
          HIFFY_KICK, HIFFY_READY, HIFFY_FAILURE, HIFFY_RSTACK, stack,
          scratch, hpc, order, issued, nSub, nOk, nErr, lastFail, idles,
          mpc, blk, data, sha, err_cnt, ringbuf, drvAddr, faults, readOk,
          checked, passes>>

devLocals == <<sleep_ms, sleeps, kload, rv>>
hostVars == <<hpc, order>>
history == <<issued, nSub, nOk, nErr, lastFail, idles>>
\* The buffers execute() is handed.
bufs == <<stack, HIFFY_RSTACK, scratch>>
\* The state of the sp_measure task and of its debug link.
measure == <<mpc, blk, data, sha, err_cnt, ringbuf, drvAddr, faults, readOk,
             checked, passes>>
\* The state of the hiffy task and of its host.
hiffy == <<pc, devLocals, HIFFY_REQUESTS, HIFFY_ERRORS, HIFFY_KICK,
           HIFFY_READY, HIFFY_FAILURE, bufs, hostVars, history>>

\* ------------------------------------------------------------- u32 values

\* AtomicU32::fetch_add(1): wrapping increment.
U32Inc(x) == IF x = 2147483647 THEN -2147483647 - 1 ELSE x + 1

\* AtomicU32::fetch_sub(1): wrapping decrement (0 becomes 0xFFFF_FFFF, i.e. -1).
U32Dec(x) == IF x = -2147483647 - 1 THEN 2147483647 ELSE x - 1

\* Sum modulo 2^32 of two u32 values.
U32Add(a, b) ==
    IF a >= 0 /\ b >= 0 /\ b > 2147483647 - a
    THEN ((a + (-2147483647 - 1)) + b) + (-2147483647 - 1)
    ELSE IF a < 0 /\ b < 0 /\ b < (-2147483647 - 1) - a
    THEN ((a - (-2147483647 - 1)) + b) - (-2147483647 - 1)
    ELSE a + b

Min(a, b) == IF a <= b THEN a ELSE b

\* --------------------------------------------------------- engine outcomes

Failures == 1..NFail
None == <<>>
Some(f) == <<f>>
Ok == <<"Ok">>
Err(f) == <<"Err", f>>
\* Result<_, Failure>: what execute() can return.
Outcomes == {Ok} \cup {Err(f) : f \in Failures}
\* rv outside the match: the local is not live.
NoRv == <<"none">>

\* What a buffer can hold: its initial contents, or something an invocation
\* left in it.
BufStates == {Pristine} \cup (1..NUsed)

ProgramPoints == {"ready_add", "sleep_for", "ready_sub", "kick_load",
                  "kick_sub", "execute", "match_rv", "failure_store"}

\* ------------------------------------------------------------------- init

InitDevice ==
    /\ pc = "ready_add"
    /\ sleep_ms = InitSleepMs
    /\ sleeps = 0
    /\ kload = 0
    /\ rv = NoRv
    /\ HIFFY_REQUESTS = 0
    /\ HIFFY_ERRORS = 0
    /\ HIFFY_KICK = 0
    /\ HIFFY_READY = 0
    /\ HIFFY_FAILURE = None
    /\ HIFFY_RSTACK = Pristine
    /\ stack = Pristine
    /\ scratch = Pristine
    /\ issued = 0
    /\ nSub = 0
    /\ nOk = 0
    /\ nErr = 0
    /\ lastFail = None
    /\ idles = 0

\* ------------------------------------------------- sp_measure: the data

Bytes == 0..MaxByte
\* [u8; READ_SIZE], indexed from 0 as in the source.
Blocks == [0..(ReadSize - 1) -> Bytes]
\* [0; READ_SIZE]
ZeroBlock == [k \in 0..(ReadSize - 1) |-> 0]

\* static EXPECTED_BYTES: [u8; TEST_SIZE], the image the build embeds.
EXPECTED_BYTES ==
    [j \in 0..(TestSize - 1) |-> (j + (j \div ReadSize)) % (MaxByte + 1)]

\* &EXPECTED_BYTES[bit..(bit + READ_SIZE)] with bit = i * READ_SIZE
ExpectedSlice(i) ==
    [k \in 0..(ReadSize - 1) |-> EXPECTED_BYTES[i * ReadSize + k]]

\* addr of the i-th item of (FLASH_START..FLASH_END).step_by(READ_SIZE)
Addr(i) == FlashStart + i * ReadSize

RECURSIVE cmpFrom(_, _, _)
\* for i in 0..a.len() { if a[i] != b[i] { return Some((i, a[i], b[i])); } } None
cmpFrom(a, b, i) ==
    IF i \notin DOMAIN a THEN None
    ELSE IF a[i] # b[i] THEN Some(<<i, a[i], b[i]>>)
    ELSE cmpFrom(a, b, i + 1)

RECURSIVE cmpDown(_, _, _)
cmpDown(a, b, i) ==
    IF i \notin DOMAIN a THEN None
    ELSE IF a[i] # b[i] THEN Some(<<i, a[i], b[i]>>)
    ELSE cmpDown(a, b, i - 1)

cmp_Last(a, b) ==
    IF DOMAIN a # DOMAIN b THEN <<"hang">> ELSE cmpDown(a, b, ReadSize - 1)

\* fn cmp(a: &[u8], b: &[u8]) -> Option<(usize, u8, u8)>; unequal lengths
\* never return (loop {}).
cmp(a, b) ==
    IF DOMAIN a # DOMAIN b THEN <<"hang">> ELSE cmpFrom(a, b, 0)

\* ringbuf_entry!: the ring keeps the latest RingSize entries.
Record(ring, entries) ==
    LET all == ring \o entries
    IN  IF Len(all) <= RingSize THEN all
        ELSE SubSeq(all, Len(all) - RingSize + 1, Len(all))

\* No read_transaction_start has succeeded yet.
NoTxn == -1

\* The Trace entries (the timestamps of Start and End are left out).
TraceStart == <<"Start">>
TraceEnd == <<"End">>
TraceErrCnt(n) == <<"ErrCnt", n>>
TraceAddr(a) == <<"Addr", a>>
TraceData(d) == <<"Data", d>>
TraceBadness10000(a, i, got, exp) == <<"Badness10000", a, i, got, exp>>
\* The digest stands for the blocks it was fed, in order.
TraceHashOut(h) == <<"HashOut", h>>

MeasurePoints == {"setup", "start", "for", "txn_start", "txn_setup", "fill",
                  "read", "re_setup", "re_start", "cmp", "finish",
                  "halt_setup", "halt_bad"}

InitMeasure ==
    /\ mpc = "setup"
    /\ blk = 0
    /\ data = ZeroBlock
    /\ sha = <<>>
    /\ err_cnt = 0
    /\ ringbuf = <<>>
    /\ drvAddr = NoTxn
    /\ faults = 0
    /\ readOk = FALSE
    /\ checked = <<>>
    /\ passes = 0

Init ==
    /\ InitDevice
    /\ InitMeasure
    /\ hpc = "free"
    /\ order = "none"

\* ----------------------------------------------------------------- device

ReadyFetchAdd_SkipWhenKicked ==
    /\ pc = "ready_add"
    /\ IF HIFFY_KICK # 0
       THEN /\ pc' = "kick_load"
            /\ UNCHANGED HIFFY_READY
       ELSE /\ HIFFY_READY' = U32Inc(HIFFY_READY)
            /\ pc' = "sleep_for"
    /\ UNCHANGED <<devLocals, HIFFY_REQUESTS, HIFFY_ERRORS, HIFFY_KICK,
                   HIFFY_FAILURE, hostVars, history>>
    /\ UNCHANGED <<bufs, measure>>

\* HIFFY_READY.fetch_add(1, Ordering::SeqCst);
ReadyFetchAdd ==
    /\ pc = "ready_add"
    /\ HIFFY_READY' = U32Inc(HIFFY_READY)
    /\ pc' = "sleep_for"
    /\ UNCHANGED <<devLocals, HIFFY_REQUESTS, HIFFY_ERRORS, HIFFY_KICK,
                   HIFFY_FAILURE, hostVars, history>>
    /\ UNCHANGED <<bufs, measure>>

\* hl::sleep_for(sleep_ms) returns.
SleepFor ==
    /\ pc = "sleep_for"
    /\ pc' = "ready_sub"
    /\ UNCHANGED <<devLocals, HIFFY_REQUESTS, HIFFY_ERRORS, HIFFY_KICK,
                   HIFFY_READY, HIFFY_FAILURE, hostVars, history>>
    /\ UNCHANGED <<bufs, measure>>

ReadyFetchSub_Skip ==
    /\ pc = "ready_sub"
    /\ pc' = "kick_load"
    /\ UNCHANGED <<devLocals, HIFFY_REQUESTS, HIFFY_ERRORS, HIFFY_KICK,
                   HIFFY_READY, HIFFY_FAILURE, hostVars, history>>
    /\ UNCHANGED <<bufs, measure>>

\* HIFFY_READY.fetch_sub(1, Ordering::SeqCst);
ReadyFetchSub ==
    /\ pc = "ready_sub"
    /\ HIFFY_READY' = U32Dec(HIFFY_READY)
    /\ pc' = "kick_load"
    /\ UNCHANGED <<devLocals, HIFFY_REQUESTS, HIFFY_ERRORS, HIFFY_KICK,
                   HIFFY_FAILURE, hostVars, history>>
    /\ UNCHANGED <<bufs, measure>>

IdleTick_NoCap ==
    /\ IF sleeps + 1 = BackoffTicks
       THEN /\ sleep_ms' = sleep_ms * BackoffFactor
            /\ sleeps' = 0
       ELSE /\ sleep_ms' = sleep_ms
            /\ sleeps' = sleeps + 1
    /\ idles' = Min(idles + 1, IdleCap)

IdleTick_NoSleepsReset ==
    /\ IF sleeps + 1 = BackoffTicks
       THEN /\ sleep_ms' = Min(sleep_ms * BackoffFactor, MaxSleepMs)
            /\ sleeps' = sleeps + 1
       ELSE /\ sleep_ms' = sleep_ms
            /\ sleeps' = sleeps + 1
    /\ idles' = Min(idles + 1, IdleCap)

\* sleeps += 1; if sleeps == 10 { sleep_ms = min(sleep_ms * 10, 250); sleeps = 0 }
IdleTick ==
    /\ IF sleeps + 1 = BackoffTicks
       THEN /\ sleep_ms' = Min(sleep_ms * BackoffFactor, MaxSleepMs)
            /\ sleeps' = 0
       ELSE /\ sleep_ms' = sleep_ms
            /\ sleeps' = sleeps + 1
    /\ idles' = Min(idles + 1, IdleCap)

KickLoad_NoCheck ==
    /\ pc = "kick_load"
    /\ kload' = HIFFY_KICK
    /\ pc' = "kick_sub"
    /\ UNCHANGED <<sleep_ms, sleeps, idles>>
    /\ UNCHANGED <<rv, HIFFY_REQUESTS, HIFFY_ERRORS, HIFFY_KICK, HIFFY_READY,
                   HIFFY_FAILURE, hostVars, issued, nSub, nOk, nErr, lastFail>>
    /\ UNCHANGED <<bufs, measure>>

\* if HIFFY_KICK.load(Ordering::SeqCst) == 0 { ...; continue; }
KickLoad ==
    /\ pc = "kick_load"
    /\ IF HIFFY_KICK = 0
       THEN /\ IdleTick
            /\ kload' = 0
            /\ pc' = "ready_add"
       ELSE /\ kload' = HIFFY_KICK
            /\ pc' = "kick_sub"
            /\ UNCHANGED <<sleep_ms, sleeps, idles>>
    /\ UNCHANGED <<rv, HIFFY_REQUESTS, HIFFY_ERRORS, HIFFY_KICK, HIFFY_READY,
                   HIFFY_FAILURE, hostVars, issued, nSub, nOk, nErr, lastFail>>
    /\ UNCHANGED <<bufs, measure>>

KickFetchSub_Store ==
    /\ pc = "kick_sub"
    /\ HIFFY_KICK' = U32Dec(kload)
    /\ sleep_ms' = KickSleepMs
    /\ sleeps' = 0
    /\ nSub' = nSub + 1
    /\ idles' = 0
    /\ pc' = "execute"
    /\ UNCHANGED <<kload, rv, HIFFY_REQUESTS, HIFFY_ERRORS, HIFFY_READY,
                   HIFFY_FAILURE, hostVars, issued, nOk, nErr, lastFail>>
    /\ UNCHANGED <<bufs, measure>>

KickFetchSub_NoReset ==
    /\ pc = "kick_sub"
    /\ HIFFY_KICK' = U32Dec(HIFFY_KICK)
    /\ sleeps' = 0
    /\ nSub' = nSub + 1
    /\ idles' = 0
    /\ pc' = "execute"
    /\ UNCHANGED <<sleep_ms, kload, rv, HIFFY_REQUESTS, HIFFY_ERRORS,
                   HIFFY_READY, HIFFY_FAILURE, hostVars, issued, nOk, nErr,
                   lastFail>>
    /\ UNCHANGED <<bufs, measure>>

KickFetchSub_Clear ==
    /\ pc = "kick_sub"
    /\ HIFFY_KICK' = 0
    /\ sleep_ms' = KickSleepMs
    /\ sleeps' = 0
    /\ nSub' = nSub + 1
    /\ idles' = 0
    /\ pc' = "execute"
    /\ UNCHANGED <<kload, rv, HIFFY_REQUESTS, HIFFY_ERRORS, HIFFY_READY,
                   HIFFY_FAILURE, hostVars, issued, nOk, nErr, lastFail>>
    /\ UNCHANGED <<bufs, measure>>

KickFetchSub_Reinit ==
    /\ pc = "kick_sub"
    /\ HIFFY_KICK' = U32Dec(HIFFY_KICK)
    /\ sleep_ms' = KickSleepMs
    /\ sleeps' = 0
    /\ nSub' = nSub + 1
    /\ idles' = 0
    /\ stack' = Pristine
    /\ scratch' = Pristine
    /\ HIFFY_RSTACK' = Pristine
    /\ pc' = "execute"
    /\ UNCHANGED <<kload, rv, HIFFY_REQUESTS, HIFFY_ERRORS, HIFFY_READY,
                   HIFFY_FAILURE, hostVars, issued, nOk, nErr, lastFail>>
    /\ UNCHANGED measure

\* HIFFY_KICK.fetch_sub(1, Ordering::SeqCst); sleep_ms = 1; sleeps = 0;
KickFetchSub ==
    /\ pc = "kick_sub"
    /\ HIFFY_KICK' = U32Dec(HIFFY_KICK)
    /\ sleep_ms' = KickSleepMs
    /\ sleeps' = 0
    /\ nSub' = nSub + 1
    /\ idles' = 0
    /\ pc' = "execute"
    /\ UNCHANGED <<kload, rv, HIFFY_REQUESTS, HIFFY_ERRORS, HIFFY_READY,
                   HIFFY_FAILURE, hostVars, issued, nOk, nErr, lastFail>>
    /\ UNCHANGED <<bufs, measure>>

\* let rv = execute::<_, NLABELS>(text, HIFFY_FUNCS, data, ...);
Execute ==
    /\ pc = "execute"
    /\ \E r \in Outcomes :
         /\ rv' = r
         /\ IF r = Ok
            THEN /\ nOk' = nOk + 1
                 /\ UNCHANGED <<nErr, lastFail>>
            ELSE /\ nErr' = nErr + 1
                 /\ lastFail' = Some(r[2])
                 /\ UNCHANGED nOk
    /\ stack' \in BufStates
    /\ HIFFY_RSTACK' \in BufStates
    /\ scratch' \in BufStates
    /\ pc' = "match_rv"
    /\ UNCHANGED <<sleep_ms, sleeps, kload, HIFFY_REQUESTS, HIFFY_ERRORS,
                   HIFFY_KICK, HIFFY_READY, HIFFY_FAILURE, hostVars, issued,
                   nSub, idles>>
    /\ UNCHANGED measure

PublishOk_ClearsFailure ==
    /\ pc = "match_rv"
    /\ rv = Ok
    /\ HIFFY_REQUESTS' = U32Inc(HIFFY_REQUESTS)
    /\ HIFFY_FAILURE' = None
    /\ rv' = NoRv
    /\ pc' = "ready_add"
    /\ UNCHANGED <<sleep_ms, sleeps, kload, HIFFY_ERRORS, HIFFY_KICK,
                   HIFFY_READY, hostVars, history>>
    /\ UNCHANGED <<bufs, measure>>

\* Ok(_) => { HIFFY_REQUESTS.fetch_add(1, ..); trace_success(); }
PublishOk ==
    /\ pc = "match_rv"
    /\ rv = Ok
    /\ HIFFY_REQUESTS' = U32Inc(HIFFY_REQUESTS)
    /\ rv' = NoRv
    /\ pc' = "ready_add"
    /\ UNCHANGED <<sleep_ms, sleeps, kload, HIFFY_ERRORS, HIFFY_KICK,
                   HIFFY_READY, HIFFY_FAILURE, hostVars, history>>
    /\ UNCHANGED <<bufs, measure>>

PublishErr_AlsoRequests ==
    /\ pc = "match_rv"
    /\ rv # Ok
    /\ HIFFY_REQUESTS' = U32Inc(HIFFY_REQUESTS)
    /\ HIFFY_ERRORS' = U32Inc(HIFFY_ERRORS)
    /\ pc' = "failure_store"
    /\ UNCHANGED <<devLocals, HIFFY_KICK, HIFFY_READY, HIFFY_FAILURE,
                   hostVars, history>>
    /\ UNCHANGED <<bufs, measure>>

PublishErr_Abort ==
    /\ pc = "match_rv"
    /\ rv # Ok
    /\ HIFFY_ERRORS' = U32Inc(HIFFY_ERRORS)
    /\ pc' = "abort"
    /\ UNCHANGED <<devLocals, HIFFY_REQUESTS, HIFFY_KICK, HIFFY_READY,
                   HIFFY_FAILURE, hostVars, history>>
    /\ UNCHANGED <<bufs, measure>>

\* Err(failure) => { HIFFY_ERRORS.fetch_add(1, ..); ...
PublishErr ==
    /\ pc = "match_rv"
    /\ rv # Ok
    /\ HIFFY_ERRORS' = U32Inc(HIFFY_ERRORS)
    /\ pc' = "failure_store"
    /\ UNCHANGED <<devLocals, HIFFY_REQUESTS, HIFFY_KICK, HIFFY_READY,
                   HIFFY_FAILURE, hostVars, history>>
    /\ UNCHANGED <<bufs, measure>>

FailureStore_Retry ==
    /\ pc = "failure_store"
    /\ HIFFY_FAILURE' = Some(rv[2])
    /\ rv' = NoRv
    /\ pc' = "execute"
    /\ UNCHANGED <<sleep_ms, sleeps, kload, HIFFY_REQUESTS, HIFFY_ERRORS,
                   HIFFY_KICK, HIFFY_READY, hostVars, history>>
    /\ UNCHANGED <<bufs, measure>>

FailureStore_KeepFirst ==
    /\ pc = "failure_store"
    /\ HIFFY_FAILURE' = IF HIFFY_FAILURE = None THEN Some(rv[2])
                                                ELSE HIFFY_FAILURE
    /\ rv' = NoRv
    /\ pc' = "ready_add"
    /\ UNCHANGED <<sleep_ms, sleeps, kload, HIFFY_REQUESTS, HIFFY_ERRORS,
                   HIFFY_KICK, HIFFY_READY, hostVars, history>>
    /\ UNCHANGED <<bufs, measure>>

\* ... unsafe { HIFFY_FAILURE = Some(failure); } trace_failure(failure); }
FailureStore ==
    /\ pc = "failure_store"
    /\ HIFFY_FAILURE' = Some(rv[2])
    /\ rv' = NoRv
    /\ pc' = "ready_add"
    /\ UNCHANGED <<sleep_ms, sleeps, kload, HIFFY_REQUESTS, HIFFY_ERRORS,
                   HIFFY_KICK, HIFFY_READY, hostVars, history>>
    /\ UNCHANGED <<bufs, measure>>

\* One step of main()'s loop.
Device ==
    \/ ReadyFetchAdd
    \/ SleepFor
    \/ ReadyFetchSub
    \/ KickLoad
    \/ KickFetchSub
    \/ Execute
    \/ PublishOk
    \/ PublishErr
    \/ FailureStore

\* ------------------------------------------------------------------- host

\* The debugger increments HIFFY_KICK: at any moment when it follows no
\* protocol (hpc = "free"), after its write when it follows the ownership
\* protocol (hpc = "kick").
HostKick ==
    /\ hpc \in {"free", "kick"}
    /\ issued < MaxKicks
    /\ HIFFY_KICK' = U32Inc(HIFFY_KICK)
    /\ issued' = issued + 1
    /\ hpc' = IF hpc = "free" THEN "free" ELSE "read1"
    /\ UNCHANGED <<pc, devLocals, HIFFY_REQUESTS, HIFFY_ERRORS, HIFFY_READY,
                   HIFFY_FAILURE, order, nSub, nOk, nErr, lastFail, idles>>
    /\ UNCHANGED <<bufs, measure>>

\* What one mailbox read of the protocol host must show: the ready flag
\* nonzero, or the kick counter 0.
HostSees(word) ==
    IF word = "ready" THEN HIFFY_READY # 0 ELSE HIFFY_KICK = 0

FirstWord == IF order = "ready_kick" THEN "ready" ELSE "kick"
SecondWord == IF order = "ready_kick" THEN "kick" ELSE "ready"

\* The host polls the first word until it shows the idle value.
HostRead1 ==
    /\ hpc = "read1"
    /\ HostSees(FirstWord)
    /\ hpc' = "read2"
    /\ UNCHANGED <<pc, devLocals, HIFFY_REQUESTS, HIFFY_ERRORS, HIFFY_KICK,
                   HIFFY_READY, HIFFY_FAILURE, order, history>>
    /\ UNCHANGED <<bufs, measure>>

\* Then it polls the second word; once that shows the idle value too, the
\* host takes the buffers to be its own.
HostRead2 ==
    /\ hpc = "read2"
    /\ HostSees(SecondWord)
    /\ hpc' = "write"
    /\ UNCHANGED <<pc, devLocals, HIFFY_REQUESTS, HIFFY_ERRORS, HIFFY_KICK,
                   HIFFY_READY, HIFFY_FAILURE, order, history>>
    /\ UNCHANGED <<bufs, measure>>

\* A second read that does not show the idle value: the host may start over.
HostRestart ==
    /\ hpc = "read2"
    /\ ~HostSees(SecondWord)
    /\ hpc' = "read1"
    /\ UNCHANGED <<pc, devLocals, HIFFY_REQUESTS, HIFFY_ERRORS, HIFFY_KICK,
                   HIFFY_READY, HIFFY_FAILURE, order, history>>
    /\ UNCHANGED <<bufs, measure>>

\* The host starts placing HIF in HIFFY_TEXT / HIFFY_DATA ...
HostWriteBegin ==
    /\ hpc = "write"
    /\ hpc' = "writing"
    /\ UNCHANGED <<pc, devLocals, HIFFY_REQUESTS, HIFFY_ERRORS, HIFFY_KICK,
                   HIFFY_READY, HIFFY_FAILURE, order, history>>
    /\ UNCHANGED <<bufs, measure>>

\* ... and completes the write; only then does it kick.
HostWriteEnd ==
    /\ hpc = "writing"
    /\ hpc' = "kick"
    /\ UNCHANGED <<pc, devLocals, HIFFY_REQUESTS, HIFFY_ERRORS, HIFFY_KICK,
                   HIFFY_READY, HIFFY_FAILURE, order, history>>
    /\ UNCHANGED <<bufs, measure>>

Next ==
    \/ Device
    \/ HostKick

Spec == Init /\ [][Next]_vars

\* The sleep always returns and every engine call returns: the device, which
\* never blocks, keeps taking steps.
LiveSpec == Init /\ [][Next]_vars /\ WF_vars(Device)

\* The host that follows the ownership protocol, reading the two mailbox
\* words in one of the two orders.
InitOwn ==
    /\ InitDevice
    /\ InitMeasure
    /\ hpc = "read1"
    /\ order \in {"ready_kick", "kick_ready"}

NextOwn ==
    \/ Device
    \/ HostRead1
    \/ HostRead2
    \/ HostRestart
    \/ HostWriteBegin
    \/ HostWriteEnd
    \/ HostKick

SpecOwn == InitOwn /\ [][NextOwn]_vars

\* The host that kicks in bursts and then goes silent: it kicks at any
\* moment (hpc = "burst") ...
HostBurstKick ==
    /\ hpc = "burst"
    /\ issued < MaxKicks
    /\ HIFFY_KICK' = U32Inc(HIFFY_KICK)
    /\ issued' = issued + 1
    /\ UNCHANGED <<pc, devLocals, HIFFY_REQUESTS, HIFFY_ERRORS, HIFFY_READY,
                   HIFFY_FAILURE, hostVars, nSub, nOk, nErr, lastFail, idles>>
    /\ UNCHANGED <<bufs, measure>>

\* ... until, with the device in its sleep or just woken and not yet at its
\* load of HIFFY_KICK, and n >= 2 kicks pending, it issues no further kick.
HostSilence ==
    /\ hpc = "burst"
    /\ pc \in {"sleep_for", "ready_sub", "kick_load"}
    /\ HIFFY_KICK >= 2
    /\ hpc' = "silent"
    /\ UNCHANGED <<pc, devLocals, HIFFY_REQUESTS, HIFFY_ERRORS, HIFFY_KICK,
                   HIFFY_READY, HIFFY_FAILURE, order, history>>
    /\ UNCHANGED <<bufs, measure>>

InitBurst ==
    /\ InitDevice
    /\ InitMeasure
    /\ hpc = "burst"
    /\ order = "none"

NextBurst ==
    \/ Device
    \/ HostBurstKick
    \/ HostSilence

\* The device keeps taking steps (the sleep and the engine return).
SpecBurst == InitBurst /\ [][NextBurst]_vars /\ WF_vars(Device)

\* ------------------------------------------------------------- sp_measure

\* let mut sha = Sha256::new(); match sp_ctrl.setup() { Err(_) => loop {}, _ => () }
MSetup ==
    /\ mpc = "setup"
    /\ sha' = <<>>
    /\ \/ /\ mpc' = "start"
          /\ UNCHANGED faults
       \/ /\ faults < MaxFaults
          /\ faults' = faults + 1
          /\ mpc' = "halt_setup"
    /\ UNCHANGED <<blk, data, err_cnt, ringbuf, drvAddr, readOk, checked>>
    /\ UNCHANGED <<hiffy, passes>>

\* let mut data = [0; READ_SIZE]; ringbuf_entry!(Trace::Start(start));
\* the for loop starts at its first item.
MStart ==
    /\ mpc = "start"
    /\ passes < MaxPasses
    /\ data' = ZeroBlock
    /\ readOk' = FALSE
    /\ ringbuf' = Record(ringbuf, <<TraceStart>>)
    /\ blk' = 0
    /\ checked' = <<>>
    /\ mpc' = "for"
    /\ UNCHANGED <<sha, err_cnt, drvAddr, faults>>
    /\ UNCHANGED <<hiffy, passes>>

\* for (i, addr) in (FLASH_START..FLASH_END).step_by(READ_SIZE).enumerate()
\* { if addr % TRANSACTION_SIZE == 0 { ... } ... }
MFor ==
    /\ mpc = "for"
    /\ mpc' = IF Addr(blk) >= FlashEnd THEN "finish"
              ELSE IF Addr(blk) % TransactionSize = 0 THEN "txn_start"
              ELSE "fill"
    /\ UNCHANGED <<blk, data, sha, err_cnt, ringbuf, drvAddr, faults, readOk,
                   checked>>
    /\ UNCHANGED <<hiffy, passes>>

MTxnStart_GiveUp ==
    /\ mpc = "txn_start"
    /\ \/ /\ drvAddr' = Addr(blk)
          /\ mpc' = "fill"
          /\ UNCHANGED <<err_cnt, faults>>
       \/ /\ faults < MaxFaults
          /\ faults' = faults + 1
          /\ err_cnt' = err_cnt + 1
          /\ mpc' = "halt_setup"
          /\ UNCHANGED drvAddr
    /\ UNCHANGED <<blk, data, sha, ringbuf, readOk, checked>>
    /\ UNCHANGED <<hiffy, passes>>

\* match sp_ctrl.read_transaction_start(addr, addr + TRANSACTION_SIZE)
\* { Err(_) => { err_cnt += 1; ... } _ => break }
MTxnStart ==
    /\ mpc = "txn_start"
    /\ \/ /\ drvAddr' = Addr(blk)
          /\ mpc' = "fill"
          /\ UNCHANGED <<err_cnt, faults>>
       \/ /\ faults < MaxFaults
          /\ faults' = faults + 1
          /\ err_cnt' = err_cnt + 1
          /\ mpc' = "txn_setup"
          /\ UNCHANGED drvAddr
    /\ UNCHANGED <<blk, data, sha, ringbuf, readOk, checked>>
    /\ UNCHANGED <<hiffy, passes>>

\* let _ = sp_ctrl.setup(); continue;
MTxnSetup ==
    /\ mpc = "txn_setup"
    /\ \/ UNCHANGED faults
       \/ /\ faults < MaxFaults
          /\ faults' = faults + 1
    /\ mpc' = "txn_start"
    /\ UNCHANGED <<blk, data, sha, err_cnt, ringbuf, drvAddr, readOk, checked>>
    /\ UNCHANGED <<hiffy, passes>>

\* data.fill(0);
MFill ==
    /\ mpc = "fill"
    /\ data' = ZeroBlock
    /\ readOk' = FALSE
    /\ mpc' = "read"
    /\ UNCHANGED <<blk, sha, err_cnt, ringbuf, drvAddr, faults, checked>>
    /\ UNCHANGED <<hiffy, passes>>

MReadFrom_BreakOnErr(D) ==
    /\ mpc = "read"
    /\ \/ /\ \E d \in D : data' = d
          /\ readOk' = TRUE
          /\ mpc' = "cmp"
          /\ UNCHANGED <<ringbuf, faults>>
       \/ /\ faults < MaxFaults
          /\ faults' = faults + 1
          /\ \E d \in Blocks :
               /\ data' = d
               /\ ringbuf' = Record(ringbuf,
                                    <<TraceAddr(Addr(blk)), TraceData(d)>>)
          /\ readOk' = FALSE
          /\ mpc' = "cmp"
    /\ UNCHANGED <<blk, sha, err_cnt, drvAddr, checked>>
    /\ UNCHANGED <<hiffy, passes>>

\* match sp_ctrl.read_transaction(&mut data) { Err(_) => {
\* ringbuf_entry!(Trace::Addr(addr)); ringbuf_entry!(Trace::Data(data)); ... }
\* Ok(_) => break }, where D is the set of blocks the flash can hold at addr.
\* A read that returns Err can leave anything in the buffer (nothing
\* written, part of a block, a whole block).
MReadFrom(D) ==
    /\ mpc = "read"
    /\ \/ /\ \E d \in D : data' = d
          /\ readOk' = TRUE
          /\ mpc' = "cmp"
          /\ UNCHANGED <<ringbuf, faults>>
       \/ /\ faults < MaxFaults
          /\ faults' = faults + 1
          /\ \E d \in Blocks :
               /\ data' = d
               /\ ringbuf' = Record(ringbuf,
                                    <<TraceAddr(Addr(blk)), TraceData(d)>>)
          /\ readOk' = FALSE
          /\ mpc' = "re_setup"
    /\ UNCHANGED <<blk, sha, err_cnt, drvAddr, checked>>
    /\ UNCHANGED <<hiffy, passes>>

\* The read of a flash that can hold anything.
MRead == MReadFrom(Blocks)

\* The read of a flash that holds the image the build embedded.
MReadImage == MReadFrom({ExpectedSlice(blk)})

\* match sp_ctrl.setup() { Err(_) => continue, Ok(_) => { err_cnt += 1; ... } }
MReSetup ==
    /\ mpc = "re_setup"
    /\ \/ /\ err_cnt' = err_cnt + 1
          /\ mpc' = "re_start"
          /\ UNCHANGED faults
       \/ /\ faults < MaxFaults
          /\ faults' = faults + 1
          /\ mpc' = "re_setup"
          /\ UNCHANGED err_cnt
    /\ UNCHANGED <<blk, data, sha, ringbuf, drvAddr, readOk, checked>>
    /\ UNCHANGED <<hiffy, passes>>

\* match sp_ctrl.read_transaction_start(addr, FLASH_END)
\* { Err(_) => continue, Ok(_) => break }
MReStart ==
    /\ mpc = "re_start"
    /\ \/ /\ drvAddr' = Addr(blk)
          /\ mpc' = "read"
          /\ UNCHANGED faults
       \/ /\ faults < MaxFaults
          /\ faults' = faults + 1
          /\ mpc' = "re_setup"
          /\ UNCHANGED drvAddr
    /\ UNCHANGED <<blk, data, sha, err_cnt, ringbuf, readOk, checked>>
    /\ UNCHANGED <<hiffy, passes>>

\* if let Some((i, a, b)) = cmp(&data, &EXPECTED_BYTES[bit..(bit + READ_SIZE)])
\* { three ringbuf entries; loop {} } sha.update(&data); and the for loop
\* moves to its next item.
MCmp ==
    /\ mpc = "cmp"
    /\ LET r == cmp(data, ExpectedSlice(blk))
       IN  IF r = None
           THEN /\ sha' = Append(sha, data)
                /\ checked' = Append(checked, blk)
                /\ blk' = blk + 1
                /\ mpc' = "for"
                /\ UNCHANGED ringbuf
           ELSE /\ ringbuf' = Record(ringbuf,
                     <<TraceData(data), TraceErrCnt(err_cnt),
                       TraceBadness10000(Addr(blk), r[1][1], r[1][2],
                                         r[1][3])>>)
                /\ mpc' = "halt_bad"
                /\ UNCHANGED <<sha, checked, blk>>
    /\ UNCHANGED <<data, err_cnt, drvAddr, faults, readOk>>
    /\ UNCHANGED <<hiffy, passes>>

\* let sha_out = sha.finalize(); ringbuf_entry!(Trace::End(end));
\* ringbuf_entry!(Trace::ErrCnt(err_cnt)); ringbuf_entry!(Trace::HashOut(log));
\* and the outer loop starts the next pass.
MFinish ==
    /\ mpc = "finish"
    /\ ringbuf' = Record(ringbuf,
                         <<TraceEnd, TraceErrCnt(err_cnt), TraceHashOut(sha)>>)
    /\ mpc' = "setup"
    /\ passes' = passes + 1
    /\ UNCHANGED <<blk, data, sha, err_cnt, drvAddr, faults, readOk, checked>>
    /\ UNCHANGED hiffy

\* The sp_measure task alone; its two loop {} are states it never leaves.
Measure ==
    \/ MSetup
    \/ MStart
    \/ MFor
    \/ MTxnStart
    \/ MTxnSetup
    \/ MFill
    \/ MRead
    \/ MReSetup
    \/ MReStart
    \/ MCmp
    \/ MFinish

\* The task is scheduled whenever it can run, and every driver call returns.
MeasureSpec == Init /\ [][Measure]_vars /\ WF_vars(Measure)

\* The same task reading a flash whose data matches the image.
MeasureImage ==
    \/ MSetup
    \/ MStart
    \/ MFor
    \/ MTxnStart
    \/ MTxnSetup
    \/ MFill
    \/ MReadImage
    \/ MReSetup
    \/ MReStart
    \/ MCmp
    \/ MFinish

MeasureImageSpec == Init /\ [][MeasureImage]_vars /\ WF_vars(MeasureImage)

\* ------------------------------------------------------------ type sanity

TypeOK ==
    /\ pc \in ProgramPoints
    /\ sleep_ms \in {1, 10, 100, 250}
    /\ sleeps \in 0..9
    /\ rv \in Outcomes \cup {NoRv}
    /\ HIFFY_FAILURE \in {None} \cup {Some(f) : f \in Failures}
    /\ hpc \in {"free", "read1", "read2", "write", "writing", "kick", "burst",
                "silent"}
    /\ idles \in 0..IdleCap
    /\ mpc \in MeasurePoints
    /\ blk \in 0..NBlocks
    /\ data \in Blocks
    /\ faults \in 0..MaxFaults
    /\ Len(ringbuf) <= RingSize

\* ----------------------------------------------------------------- claims

\* Invocations whose outcome has been published.
Completed == U32Add(HIFFY_REQUESTS, HIFFY_ERRORS)

\* The device has decremented HIFFY_KICK for an invocation whose outcome
\* counter it has not yet incremented.
InFlight == pc \in {"execute", "match_rv"}

\* C1: kick conservation. In every state where the device is not between
\* its kick decrement and the publication of that invocation's outcome,
\* requests + errors + kick equals the kicks issued (modulo 2^32); so with
\* kick = 0 and the device idle, requests + errors equals the kicks issued.
C1_KickConservation ==
    /\ ~InFlight => U32Add(Completed, HIFFY_KICK) = issued
    /\ (~InFlight /\ HIFFY_KICK = 0) => Completed = issued

C1_Witness ==
    /\ issued >= 3
    /\ HIFFY_KICK = 0
    /\ pc = "sleep_for"
    /\ HIFFY_REQUESTS >= 1
    /\ HIFFY_ERRORS >= 1
    /\ Completed = issued

\* C2: no kick is lost under any interleaving. In every state the kick
\* counter is exactly the kicks issued minus the decrements made, and every
\* change of it is either one host increment or one device decrement by 1:
\* the device never overwrites it and never takes more than 1.
C2_NoKickLost ==
    /\ [](HIFFY_KICK = issued - nSub)
    /\ [][HIFFY_KICK' # HIFFY_KICK =>
            \/ /\ HIFFY_KICK' = HIFFY_KICK + 1
               /\ issued' = issued + 1
               /\ nSub' = nSub
            \/ /\ HIFFY_KICK' = HIFFY_KICK - 1
               /\ pc = "kick_sub"
               /\ nSub' = nSub + 1
               /\ issued' = issued]_vars

\* A host increment landed between the device's load and its fetch_sub (the
\* counter after the decrement is not below the loaded value), and another
\* lands during the engine call.
C2_Witness ==
    /\ pc = "execute"
    /\ kload >= 1
    /\ HIFFY_KICK >= kload + 1
    /\ issued = nSub + HIFFY_KICK

\* C3: every kick is eventually processed. With the sleep and the engine
\* always returning and finitely many kicks, the device reaches, and then
\* stays in, states with kick = 0 where the invocations made and published
\* equal the kicks issued.
C3_EveryKickProcessed ==
    <>[](/\ HIFFY_KICK = 0
         /\ nOk + nErr = issued
         /\ Completed = issued)

C3_Witness ==
    /\ issued = MaxKicks
    /\ HIFFY_KICK = 0
    /\ nOk + nErr = issued
    /\ Completed = issued
    /\ pc = "ready_sub"

\* The host's write of the buffers overlaps an executing invocation.
Overlap == hpc = "writing" /\ pc = "execute"

\* C4 as claimed: whichever order the host reads the two words in, its write
\* never overlaps an executing invocation.
C4_NoOverlapEitherOrder == ~Overlap

\* C4 as amended: a host that first observes the kick counter 0 and after
\* that the ready flag nonzero never has its write overlap an invocation.
C4_NoOverlapKickThenReady == order = "kick_ready" => ~Overlap

\* The host, reading kick first, is writing for a later request after the
\* device has run an invocation.
C4_Witness ==
    /\ order = "kick_ready"
    /\ hpc = "writing"
    /\ issued >= 2
    /\ nSub >= 2

\* C5: the ready flag is 1 exactly between the fetch_add before the sleep
\* and the fetch_sub after it, and 0 at every other point of the loop, in
\* particular during every invocation and its result publication; it is
\* never above 1 and never underflows.
C5_ReadyOnlyAroundSleep ==
    /\ HIFFY_READY = IF pc \in {"sleep_for", "ready_sub"} THEN 1 ELSE 0
    /\ pc \in {"kick_load", "kick_sub", "execute", "match_rv", "failure_store"}
         => HIFFY_READY = 0

C5_Witness ==
    /\ pc = "sleep_for"
    /\ HIFFY_READY = 1
    /\ nSub >= 2
    /\ HIFFY_ERRORS >= 1

\* C6: after any wake on which a kick is observed the interval is 1ms and
\* the idle-tick counter 0, whatever they were before; they stay so through
\* the invocation, and the next 10 idle sleeps all use 1ms, after which the
\* interval grows to 10ms.
C6_KickResetsBackoff ==
    /\ [][nSub' # nSub => sleep_ms' = 1 /\ sleeps' = 0]_vars
    /\ [](pc \in {"execute", "match_rv", "failure_store"}
            => sleep_ms = 1 /\ sleeps = 0)
    /\ []((nSub > 0 /\ idles < 10) => (sleep_ms = 1 /\ sleeps = idles))
    /\ []((nSub > 0 /\ idles = 10) => (sleep_ms = 10 /\ sleeps = 0))

\* After a second processed kick, ten idle sleeps of 1ms have passed and the
\* interval has grown to 10ms.
C6_Witness ==
    /\ nSub >= 2
    /\ Completed = nSub
    /\ idles = 10
    /\ sleep_ms = 10
    /\ pc = "sleep_for"

\* The interval after n consecutive idle ticks that follow a kick.
Backoff(n) ==
    IF n < 10 THEN 1 ELSE IF n < 20 THEN 10 ELSE IF n < 30 THEN 100 ELSE 250

\* C7: with no kicks the idle interval runs 1 -> 10 -> 100 -> 250, growing
\* after exactly 10 consecutive idle ticks at each value, and once at 250 it
\* stays at 250 for as long as no kick is observed.
C7_IdleBackoffSequence ==
    /\ [](nSub > 0 => sleep_ms = Backoff(idles))
    /\ []((nSub > 0 /\ idles < IdleCap) => sleeps = idles % 10)
    /\ [][(sleep_ms = 250 /\ nSub' = nSub) => sleep_ms' = 250]_vars

C7_Witness ==
    /\ nSub > 0
    /\ idles = 31
    /\ sleep_ms = 250
    /\ sleeps = 1
    /\ pc = "sleep_for"

\* C8: the failure slot is written only when an invocation fails and then
\* holds that invocation's descriptor: outside the publication of a failure
\* it equals the descriptor of the most recent failing invocation, a
\* successful invocation leaves it unchanged, and it is never cleared.
C8_LastFailureSlot ==
    /\ []((pc \in {"match_rv", "failure_store"} /\ rv # Ok)
            \/ HIFFY_FAILURE = lastFail)
    /\ [][HIFFY_FAILURE' # HIFFY_FAILURE =>
            /\ pc = "failure_store"
            /\ rv # Ok
            /\ HIFFY_FAILURE' = Some(rv[2])]_vars
    /\ [][HIFFY_REQUESTS' # HIFFY_REQUESTS =>
            HIFFY_FAILURE' = HIFFY_FAILURE]_vars
    /\ [][HIFFY_FAILURE # None => HIFFY_FAILURE' # None]_vars

\* Two failures and a success have been published and the slot holds a
\* descriptor.
C8_Witness ==
    /\ HIFFY_ERRORS = 2
    /\ HIFFY_REQUESTS = 1
    /\ HIFFY_FAILURE = Some(2)
    /\ lastFail = Some(2)
    /\ pc = "ready_add"

\* C9: each kick yields exactly one engine invocation and a failure never
\* stops the task: the engine calls made equal the kick decrements (less the
\* call in progress), never exceed the kicks issued, and after publishing a
\* failure the device is back at the top of the loop, always able to step.
C9_OneAttemptPerKick ==
    /\ [](nOk + nErr + (IF pc = "execute" THEN 1 ELSE 0) = nSub)
    /\ [](nOk + nErr <= issued)
    /\ [](pc \in ProgramPoints /\ ENABLED Device)
    /\ [][pc = "failure_store" => pc' \in {"failure_store", "ready_add"}]_vars
    /\ [][pc = "match_rv" =>
            pc' \in {"match_rv", "failure_store", "ready_add"}]_vars

\* After a failed invocation the device is running the invocation of a
\* later kick.
C9_Witness ==
    /\ pc = "execute"
    /\ HIFFY_ERRORS >= 1
    /\ nErr = HIFFY_ERRORS
    /\ nSub = nOk + nErr + 1

\* C10: each invocation changes exactly one outcome counter by exactly 1.
\* A success increments requests and leaves errors and the failure slot
\* unchanged; a failure increments errors and leaves requests unchanged;
\* idle ticks change neither counter.
C10_OneCounterPerInvocation ==
    /\ [](HIFFY_REQUESTS =
            nOk - (IF pc = "match_rv" /\ rv = Ok THEN 1 ELSE 0))
    /\ [](HIFFY_ERRORS =
            nErr - (IF pc = "match_rv" /\ rv # Ok THEN 1 ELSE 0))
    /\ [][HIFFY_REQUESTS' # HIFFY_REQUESTS =>
            /\ pc = "match_rv" /\ rv = Ok
            /\ HIFFY_REQUESTS' = HIFFY_REQUESTS + 1
            /\ HIFFY_ERRORS' = HIFFY_ERRORS
            /\ HIFFY_FAILURE' = HIFFY_FAILURE]_vars
    /\ [][HIFFY_ERRORS' # HIFFY_ERRORS =>
            /\ pc = "match_rv" /\ rv # Ok
            /\ HIFFY_ERRORS' = HIFFY_ERRORS + 1
            /\ HIFFY_REQUESTS' = HIFFY_REQUESTS]_vars
    /\ [][pc = "kick_load" =>
            HIFFY_REQUESTS' = HIFFY_REQUESTS /\ HIFFY_ERRORS' = HIFFY_ERRORS]_vars

C10_Witness ==
    /\ HIFFY_REQUESTS = 2
    /\ HIFFY_ERRORS = 1
    /\ nOk = 2
    /\ nErr = 1
    /\ pc = "kick_load"
    /\ idles >= 1

\* C11: burst handling. Once the host has gone silent with n >= 2 kicks
\* pending at a wake (n = issued - nSub at that moment), the device takes no
\* idle tick while a kick is pending, so its next n loop cycles each run one
\* invocation; the counter goes down by one per invocation and never below
\* 0; from the first of them on the interval at every sleep is 1ms; and the
\* device reaches kick = 0 with exactly the issued kicks run and published.
C11_BurstDrained ==
    /\ [][(hpc = "silent" /\ HIFFY_KICK # 0) =>
            (idles' = idles \/ (idles' = 0 /\ nSub' = nSub + 1))]_vars
    /\ [](hpc = "silent" =>
            /\ HIFFY_KICK >= 0
            /\ HIFFY_KICK = issued - nSub
            /\ nOk + nErr + (IF pc = "execute" THEN 1 ELSE 0) = nSub)
    /\ []((hpc = "silent" /\ HIFFY_KICK # 0 /\ idles = 0 /\ nSub > 0)
            => sleep_ms = 1)
    /\ [][(hpc = "silent" /\ nSub' # nSub) =>
            (HIFFY_KICK' = HIFFY_KICK - 1 /\ sleep_ms' = 1)]_vars
    /\ (hpc = "silent" ~>
            (HIFFY_KICK = 0 /\ nOk + nErr = issued /\ Completed = issued))

\* The burst is drained: after the silence every issued kick has been run
\* and published, with no idle tick since the last invocation.
C11_Witness ==
    /\ hpc = "silent"
    /\ issued >= 3
    /\ HIFFY_KICK = 0
    /\ Completed = issued
    /\ idles = 0
    /\ sleep_ms = 1
    /\ pc = "sleep_for"

\* C12 as claimed: the device marks itself ready (and suspends) only on a
\* wake where it found the kick counter at 0.
C12_ReadyOnlyAfterIdleWake ==
    [][(pc = "ready_add" /\ pc' = "sleep_for") => kload = 0]_vars

\* C12 as amended: the device marks itself ready and suspends at the start
\* of every loop cycle, whatever the kick counter holds and whatever it found
\* on the previous wake (an idle tick or an invocation); it reads the counter
\* only after waking and unmarking ready, and when it finds it nonzero it
\* goes to the decrement and the invocation with the ready flag at 0 and no
\* sleep in between.
C12_ReadyBeforeKickRead ==
    /\ [][(pc = "ready_add" /\ pc' # pc) =>
            (pc' = "sleep_for" /\ HIFFY_READY' = 1)]_vars
    /\ [][(pc' = "ready_add" /\ pc # pc') =>
            pc \in {"kick_load", "match_rv", "failure_store"}]_vars
    /\ [][(pc' = "kick_load" /\ pc # pc') =>
            (pc = "ready_sub" /\ HIFFY_READY' = 0)]_vars
    /\ [][(pc = "kick_load" /\ HIFFY_KICK # 0 /\ pc' # pc) =>
            (pc' = "kick_sub" /\ HIFFY_READY' = 0)]_vars
    /\ [][(pc = "kick_sub" /\ pc' # pc) =>
            (pc' = "execute" /\ HIFFY_READY' = 0)]_vars

\* The device is marked ready and in its sleep although the wake before
\* found the kick counter nonzero and a kick is pending now.
C12_Witness ==
    /\ pc = "sleep_for"
    /\ HIFFY_READY = 1
    /\ kload >= 1
    /\ HIFFY_KICK >= 1
    /\ nSub >= 1

\* All three buffers handed to the engine hold their initial contents.
AllPristine ==
    stack = Pristine /\ scratch = Pristine /\ HIFFY_RSTACK = Pristine

\* C13 as claimed: at the start of every invocation the operand stack, the
\* scratch buffer and the return-stack buffer are in their initial state.
C13_BuffersPristineEachInvocation == pc = "execute" => AllPristine

\* C13 as amended: the buffers are in their initial state until the first
\* engine call, so at the start of the first invocation; main() never
\* writes them afterwards (only the engine call changes them), so every
\* later invocation starts with whatever the previous one left in them.
C13_BuffersCarriedOver ==
    /\ [](nOk + nErr = 0 => AllPristine)
    /\ [][pc # "execute" => UNCHANGED bufs]_vars

\* A later invocation is about to start with all three buffers as an
\* earlier invocation left them.
C13_Witness ==
    /\ pc = "execute"
    /\ nOk + nErr >= 1
    /\ stack # Pristine
    /\ scratch # Pristine
    /\ HIFFY_RSTACK # Pristine

\* C14: the failure slot is valid once any failure has occurred. It is
\* empty until the first failed invocation; whenever the ready flag is
\* nonzero it is non-empty exactly if an invocation has failed (exactly if
\* errors is nonzero); and the only states where errors counts a failure
\* whose descriptor is not yet in the slot are at the device's store of the
\* slot, where ready is 0.
C14_FailureSlotValid ==
    /\ nErr = 0 => HIFFY_FAILURE = None
    /\ HIFFY_READY # 0 =>
         /\ (HIFFY_FAILURE # None) <=> (nErr > 0)
         /\ (HIFFY_FAILURE # None) <=> (HIFFY_ERRORS # 0)
         /\ HIFFY_FAILURE = lastFail
    /\ (HIFFY_ERRORS = nErr /\ HIFFY_FAILURE # lastFail) =>
         (pc = "failure_store" /\ HIFFY_READY = 0)

\* The window: errors already counts the second failure and the slot still
\* holds the first descriptor.
C14_Witness ==
    /\ pc = "failure_store"
    /\ HIFFY_ERRORS = 2
    /\ HIFFY_FAILURE = Some(1)
    /\ rv = Err(2)
    /\ HIFFY_READY = 0

\* C15: the kick counter never underflows. It is never negative as a 32-bit
\* pattern read as signed (never 0xFFFF_FFFF) and never above the kicks
\* issued; at the decrement the device has loaded a nonzero value and, the
\* host only incrementing, the counter is still at least that value (>= 1).
C15_KickNeverUnderflows ==
    /\ HIFFY_KICK >= 0
    /\ HIFFY_KICK <= issued
    /\ pc = "kick_sub" =>
         (kload >= 1 /\ HIFFY_KICK >= kload)

\* The device is at its decrement and host increments have landed since its
\* load.
C15_Witness ==
    /\ pc = "kick_sub"
    /\ kload = 1
    /\ HIFFY_KICK = 3

\* C16: in every reachable state the sleep interval is one of 1, 10, 100,
\* 250 ms and the idle-tick counter is in 0..9; the interval is 250ms at
\* task start and stays 250ms until the first kick is observed.
C16_IntervalRange ==
    /\ sleep_ms \in {1, 10, 100, 250}
    /\ sleeps \in 0..9
    /\ nSub = 0 => sleep_ms = 250

\* Before any kick is observed the device is in a sleep of 250ms after nine
\* idle ticks.
C16_Witness ==
    /\ pc = "sleep_for"
    /\ nSub = 0
    /\ sleeps = 9
    /\ sleep_ms = 250
    /\ issued >= 1

\* <<0, 1, ..., n - 1>>: the first n blocks in ascending address order.
Ascending(n) == [i \in 1..n |-> i - 1]
\* The first n blocks of the image.
ImagePrefix(n) == [i \in 1..n |-> ExpectedSlice(i - 1)]
LastEntry(ring) == ring[Len(ring)]
CountOf(ring, tag) == Cardinality({i \in DOMAIN ring : ring[i][1] = tag})
\* The statements between the Start entry and the end of the pass.
InPass == MeasurePoints \ {"setup", "start", "halt_setup"}

\* C17: a pass records its End and HashOut entries only after every block of
\* [FLASH_START, FLASH_END) has, in ascending address order, been read
\* successfully and found equal to its slice of EXPECTED_BYTES. The blocks
\* hashed so far are always blocks 0..i-1 of the image, each taken from a read
\* that returned Ok inside a transaction opened at or below its address; a
\* failed read keeps the task on the same block until a read succeeds, and
\* its data is never compared or hashed; only the end of a pass, with all
\* NBlocks blocks hashed, adds End and HashOut entries.
C17_EndOnlyAfterEveryBlock ==
    /\ [](mpc \in InPass =>
            /\ checked = Ascending(blk)
            /\ sha = ImagePrefix(blk))
    /\ [](mpc = "finish" => blk = NBlocks)
    /\ [](mpc = "cmp" => readOk)
    /\ [](mpc = "read" =>
            /\ drvAddr <= Addr(blk)
            /\ Addr(blk) < drvAddr + TransactionSize)
    /\ [][sha' # sha =>
            ((mpc = "setup" /\ sha' = <<>>) \/
             (mpc = "cmp" /\ readOk /\ data = ExpectedSlice(blk) /\
              sha' = Append(sha, data) /\ blk' = blk + 1))]_vars
    /\ [][(mpc = "read" /\ ~readOk') =>
            (mpc' = "re_setup" /\ blk' = blk /\ sha' = sha)]_vars
    /\ [][(mpc \in {"re_setup", "re_start"}) =>
            (mpc' \in {"re_setup", "re_start", "read"} /\ blk' = blk /\
             sha' = sha)]_vars
    /\ [][IF mpc = "finish"
          THEN (checked = Ascending(NBlocks) /\
                ringbuf' = Record(ringbuf,
                    <<TraceEnd, TraceErrCnt(err_cnt),
                      TraceHashOut(ImagePrefix(NBlocks))>>))
          ELSE (CountOf(ringbuf', "End") <= CountOf(ringbuf, "End") /\
                CountOf(ringbuf', "HashOut") <= CountOf(ringbuf, "HashOut"))
         ]_vars

\* A pass has ended and recorded the digest of the whole image although a
\* read failed on the way (its Addr entry is in the ring).
C17_Witness ==
    /\ mpc = "setup"
    /\ passes >= 1
    /\ LastEntry(ringbuf) = TraceHashOut(ImagePrefix(NBlocks))
    /\ CountOf(ringbuf, "Addr") >= 1
    /\ err_cnt >= 1

\* C18 as stated: every failing debug-link operation is retried until it
\* succeeds and a driver error never stops the task, so with data that
\* matches the first pass terminates.
C18_DriverErrorNeverStops ==
    /\ [](mpc # "halt_setup")
    /\ <>(passes >= 1)

\* C18, amended: a read_transaction_start or read_transaction that fails is
\* retried until it succeeds (the setup after a failed read is retried too,
\* the setup after a failed read_transaction_start is not: its result is
\* dropped and the start retried), staying on the same block; the one driver
\* error that stops the task is a failure of the setup that opens a pass,
\* after which the task halts. With data that matches, every transaction
\* start and every read eventually succeeds, and every pass whose opening
\* setup succeeded terminates and the task comes back to the head of its
\* loop.
C18_RetriedExceptOpeningSetup ==
    /\ [][mpc' = "halt_setup" =>
            (mpc \in {"setup", "halt_setup"})]_vars
    /\ [][(mpc = "setup" /\ faults' # faults) => mpc' = "halt_setup"]_vars
    /\ [][(mpc \in {"txn_start", "txn_setup", "read", "re_setup", "re_start"}
           /\ faults' # faults) =>
            (blk' = blk /\
             mpc' = (CASE mpc = "txn_start" -> "txn_setup"
                       [] mpc = "txn_setup" -> "txn_start"
                       [] OTHER -> "re_setup"))]_vars
    /\ [][mpc = "halt_setup" => UNCHANGED measure]_vars
    /\ [](mpc # "halt_bad")
    /\ (mpc = "txn_start") ~> (mpc = "fill")
    /\ (mpc = "read") ~> (mpc = "cmp")
    /\ (mpc = "start" /\ passes < MaxPasses) ~> (mpc = "setup")

\* A pass has terminated although a read failed and the setup after it
\* failed too: one failed read is in the ring, the driver has failed twice,
\* and the error count is 1 (the one setup that succeeded after the read).
C18_Witness ==
    /\ mpc = "setup"
    /\ passes >= 1
    /\ CountOf(ringbuf, "Addr") = 1
    /\ faults = 2
    /\ err_cnt = 1

\* C19: on the first mismatch between a block read and its expected bytes
\* the last three trace entries are the block, the error count and
\* Badness10000(address, lowest differing offset, got, expected); every block
\* before it matched; the task then never takes another step (no block is
\* read, no End or HashOut is recorded); a compared block that differs always
\* leads there, and nothing else does.
C19_MismatchHalts ==
    /\ [](mpc = "halt_bad" =>
            LET n == Len(ringbuf)
                exp == ExpectedSlice(blk)
                bad == ringbuf[n]
            IN  /\ n >= 3
                /\ ringbuf[n - 2] = TraceData(data)
                /\ ringbuf[n - 1] = TraceErrCnt(err_cnt)
                /\ bad[1] = "Badness10000"
                /\ bad[2] = Addr(blk)
                /\ bad[3] \in 0..(ReadSize - 1)
                /\ data[bad[3]] # exp[bad[3]]
                /\ bad[4] = data[bad[3]]
                /\ bad[5] = exp[bad[3]]
                /\ \A k \in 0..(bad[3] - 1) : data[k] = exp[k]
                /\ readOk
                /\ checked = Ascending(blk))
    /\ [][mpc = "halt_bad" => UNCHANGED measure]_vars
    /\ [][(mpc = "cmp" /\ data # ExpectedSlice(blk)) => mpc' = "halt_bad"]_vars
    /\ [][(mpc' = "halt_bad" /\ mpc # "halt_bad") =>
            (mpc = "cmp" /\ data # ExpectedSlice(blk))]_vars

\* The task has halted on a later block that differs from the image in
\* every byte, after a driver error.
C19_Witness ==
    /\ mpc = "halt_bad"
    /\ blk >= 1
    /\ \A k \in 0..(ReadSize - 1) : data[k] # ExpectedSlice(blk)[k]
    /\ err_cnt >= 1

=============================================================================
